---- MODULE Spec2Model ----
(***************************************************************************)
(* A model of the PostgreSQL admin tool: the DatabaseConnection class      *)
(* (src/src/db.js), the SecurityUtils validators (src/src/security.js),    *)
(* the interactive menu flows (menu.js, src/unnamed/part_001) and the HTTP *)
(* handlers (src/src/server.js).                                           *)
(*                                                                         *)
(* Text is modelled as a sequence of one-character strings, so that the    *)
(* validators work on characters as the regular expressions do.            *)
(* A value that is not a JavaScript string is the one-element sequence     *)
(* Undefined, whose element is no character.                               *)
(***************************************************************************)
EXTENDS Integers, Sequences, FiniteSets, TLC

\* ------------------------------------------------------------------------
\* Bounds of the model (not program constants)
\* ------------------------------------------------------------------------
MaxPools == 2
MaxInsts == 3
MaxEnds == 2
MaxTasks == 2
MaxNow == 30000

\* ------------------------------------------------------------------------
\* Characters
\* ------------------------------------------------------------------------
LowerSeq ==
  <<"a","b","c","d","e","f","g","h","i","j","k","l","m",
    "n","o","p","q","r","s","t","u","v","w","x","y","z">>

UpperSeq ==
  <<"A","B","C","D","E","F","G","H","I","J","K","L","M",
    "N","O","P","Q","R","S","T","U","V","W","X","Y","Z">>

Lower == { LowerSeq[i] : i \in DOMAIN LowerSeq }

Upper == { UpperSeq[i] : i \in DOMAIN UpperSeq }

Digits == {"0","1","2","3","4","5","6","7","8","9"}

Whitespace == {" ", "\t", "\n"}

Chars ==
  Lower \cup Upper \cup Digits \cup Whitespace
    \cup {"_", "-", "+", ";", "\"", "'", "*", "(", ")", ",", ".", "/", "\\",
          "=", "$"}

Undefined == <<"undefined">>

\* typeof x === 'string'
IsString(x) == \A i \in DOMAIN x : x[i] \in Chars

\* !x of JavaScript for the values of the model: undefined and "" are falsy
Falsy(x) == x = Undefined \/ x = <<>>

\* String.prototype.toUpperCase, character by character
ToUpperChar(c) ==
  IF c \in Lower THEN UpperSeq[CHOOSE i \in DOMAIN LowerSeq : LowerSeq[i] = c]
  ELSE c

ToUpperCase(s) == [i \in DOMAIN s |-> ToUpperChar(s[i])]

\* String.prototype.trim
RECURSIVE TrimLeft(_)
TrimLeft(s) ==
  IF s # <<>> /\ Head(s) \in Whitespace THEN TrimLeft(Tail(s)) ELSE s

RECURSIVE TrimRight(_)
TrimRight(s) ==
  IF s # <<>> /\ s[Len(s)] \in Whitespace
    THEN TrimRight(SubSeq(s, 1, Len(s) - 1))
    ELSE s

Trim(s) == TrimRight(TrimLeft(s))

\* String.prototype.startsWith
StartsWith(s, p) == Len(s) >= Len(p) /\ SubSeq(s, 1, Len(p)) = p

\* String.prototype.replace(/[^a-zA-Z0-9_]/g, '')
IdentChars == Lower \cup Upper \cup Digits \cup {"_"}

StripNonIdent(s) == SelectSeq(s, LAMBDA c : c \in IdentChars)

\* ------------------------------------------------------------------------
\* SecurityUtils (src/src/security.js)
\* ------------------------------------------------------------------------
MaxIdentLen == 63

\* /^[a-zA-Z_][a-zA-Z0-9_]*$/
MatchesIdentRegex(s) ==
  /\ Len(s) >= 1
  /\ s[1] \in Lower \cup Upper \cup {"_"}
  /\ \A i \in 2..Len(s) : s[i] \in IdentChars

isValidDatabaseName(name) ==
  IF Falsy(name) \/ ~IsString(name) THEN FALSE
  ELSE MatchesIdentRegex(name) /\ Len(name) <= MaxIdentLen

\* a table-name check without the length limit
isValidTableName_NoLengthLimit(name) ==
  IF Falsy(name) \/ ~IsString(name) THEN FALSE
  ELSE MatchesIdentRegex(name)

isValidTableName(name) ==
  IF Falsy(name) \/ ~IsString(name) THEN FALSE
  ELSE MatchesIdentRegex(name) /\ Len(name) <= MaxIdentLen

\* the outcome of a function that may throw: ok and value, or the error key
Ok(v) == [ok |-> TRUE, val |-> v, err |-> "none"]

Throw(e) == [ok |-> FALSE, val |-> <<>>, err |-> e]

\* a sanitizer that rejects a result of exactly 63 characters
sanitizeIdentifier_Rejects63(identifier) ==
  IF Falsy(identifier) \/ ~IsString(identifier)
    THEN Throw("security.invalidIdentifier")
  ELSE LET cleanIdentifier == StripNonIdent(identifier) IN
       IF cleanIdentifier = <<>> \/ Len(cleanIdentifier) >= MaxIdentLen
         THEN Throw("security.invalidIdentifier")
         ELSE Ok(cleanIdentifier)

sanitizeIdentifier(identifier) ==
  IF Falsy(identifier) \/ ~IsString(identifier)
    THEN Throw("security.invalidIdentifier")
  ELSE LET cleanIdentifier == StripNonIdent(identifier) IN
       IF cleanIdentifier = <<>> \/ Len(cleanIdentifier) > MaxIdentLen
         THEN Throw("security.invalidIdentifier")
         ELSE Ok(cleanIdentifier)

MaxFilenameLen == 255

\* a sanitizeFilename that does not cut its result
sanitizeFilename_NoLimit(filename) ==
  IF Falsy(filename) \/ ~IsString(filename)
    THEN Throw("security.invalidFilename")
  ELSE LET replaced == [i \in DOMAIN filename |->
                         IF filename[i] \in {".", "/", "\\"} THEN "_"
                         ELSE filename[i]]
           kept == SelectSeq(replaced, LAMBDA c : c \in IdentChars \cup {"-"})
           cleanName == kept
       IN IF cleanName = <<>>
            THEN Throw("security.invalidFilename")
            ELSE Ok(cleanName)

\* sanitizeFilename(filename), lines 171-187: . / and \ become _, then the
\* characters outside [a-zA-Z0-9_-] are removed, then substring(0, 255)
sanitizeFilename(filename) ==
  IF Falsy(filename) \/ ~IsString(filename)
    THEN Throw("security.invalidFilename")
  ELSE LET replaced == [i \in DOMAIN filename |->
                         IF filename[i] \in {".", "/", "\\"} THEN "_"
                         ELSE filename[i]]
           kept == SelectSeq(replaced, LAMBDA c : c \in IdentChars \cup {"-"})
           cleanName == IF Len(kept) > MaxFilenameLen
                          THEN SubSeq(kept, 1, MaxFilenameLen)
                          ELSE kept
       IN IF cleanName = <<>>
            THEN Throw("security.invalidFilename")
            ELSE Ok(cleanName)

\* parseInt(string) of JavaScript, called without a radix: leading white
\* space is skipped, a sign is read, a 0x or 0X prefix selects base 16, and
\* the longest run of digits is the value; with no digit the result is NaN
NaN == [nan |-> TRUE, n |-> 0]

HexDigitSeq ==
  <<"0","1","2","3","4","5","6","7","8","9","a","b","c","d","e","f">>

DigitValue(c) ==
  (CHOOSE i \in DOMAIN HexDigitSeq :
     HexDigitSeq[i] = c \/ ToUpperChar(HexDigitSeq[i]) = c) - 1

IsDigit(c, radix) ==
  \E i \in 1..radix : HexDigitSeq[i] = c \/ ToUpperChar(HexDigitSeq[i]) = c

\* the value of the longest run of digits at the start of s, after acc
RECURSIVE ParseDigits(_, _, _)
ParseDigits(s, radix, acc) ==
  IF s # <<>> /\ IsDigit(Head(s), radix)
    THEN ParseDigits(Tail(s), radix, acc * radix + DigitValue(Head(s)))
    ELSE acc

parseInt(string) ==
  IF ~IsString(string) THEN NaN
  ELSE LET a == TrimLeft(string)
           negative == a # <<>> /\ Head(a) = "-"
           b == IF a # <<>> /\ Head(a) \in {"-", "+"} THEN Tail(a) ELSE a
           hex == Len(b) >= 2 /\ b[1] = "0" /\ b[2] \in {"x", "X"}
           radix == IF hex THEN 16 ELSE 10
           c == IF hex THEN SubSeq(b, 3, Len(b)) ELSE b
       IN IF c = <<>> \/ ~IsDigit(Head(c), radix) THEN NaN
          ELSE LET n == ParseDigits(c, radix, 0) IN
               [nan |-> FALSE, n |-> IF negative THEN 0 - n ELSE n]

\* a validateLimit that lets 0 through
validateLimit_AllowsZero(limit) ==
  LET num == parseInt(limit) IN
  IF num.nan \/ num.n < 0 \/ num.n > 10000
    THEN Throw("security.invalidLimit")
    ELSE Ok(num.n)

validateLimit(limit) ==
  LET num == parseInt(limit) IN
  IF num.nan \/ num.n <= 0 \/ num.n > 10000
    THEN Throw("security.invalidLimit")
    ELSE Ok(num.n)

readOnlyKeywords ==
  << <<"S","E","L","E","C","T">>, <<"W","I","T","H">>, <<"S","H","O","W">>,
     <<"D","E","S","C","R","I","B","E">>, <<"E","X","P","L","A","I","N">> >>

\* a validateCustomQuery that returns the text as given
validateCustomQuery_ReturnsUntrimmed(sql) ==
  IF Falsy(sql) \/ ~IsString(sql) THEN Throw("security.invalidQuery")
  ELSE LET upperSql == Trim(ToUpperCase(sql))
           isReadOnly == \E k \in DOMAIN readOnlyKeywords :
                           StartsWith(upperSql, readOnlyKeywords[k])
       IN IF ~isReadOnly THEN Throw("security.readOnlyAllowed")
          ELSE Ok(sql)

validateCustomQuery(sql) ==
  IF Falsy(sql) \/ ~IsString(sql) THEN Throw("security.invalidQuery")
  ELSE LET upperSql == Trim(ToUpperCase(sql))
           isReadOnly == \E k \in DOMAIN readOnlyKeywords :
                           StartsWith(upperSql, readOnlyKeywords[k])
       IN IF ~isReadOnly THEN Throw("security.readOnlyAllowed")
          ELSE Ok(Trim(sql))

\* String.prototype.includes
Includes(s, k) ==
  \E i \in 1..(Len(s) - Len(k) + 1) : SubSeq(s, i, i + Len(k) - 1) = k

SkipWhile(s, set) ==
  LET others == { i \in DOMAIN s : s[i] \notin set } IN
  IF others = {} THEN <<>>
  ELSE SubSeq(s, CHOOSE i \in others : \A j \in others : i <= j, Len(s))

\* /^\s*[a-zA-Z_][a-zA-Z0-9_]*\s+[a-zA-Z]+/
MatchesBasicPattern(sql) ==
  LET a == SkipWhile(sql, Whitespace) IN
  /\ a # <<>> /\ Head(a) \in Lower \cup Upper \cup {"_"}
  /\ LET b == SkipWhile(Tail(a), IdentChars) IN
     /\ b # <<>> /\ Head(b) \in Whitespace
     /\ LET c == SkipWhile(b, Whitespace) IN
        c # <<>> /\ Head(c) \in Lower \cup Upper

dangerousKeywords ==
  << <<"D","R","O","P">>, <<"D","E","L","E","T","E">>,
     <<"T","R","U","N","C","A","T","E">>, <<"A","L","T","E","R">>,
     <<"C","R","E","A","T","E"," ","D","A","T","A","B","A","S","E">>,
     <<"D","R","O","P"," ","D","A","T","A","B","A","S","E">>,
     <<"G","R","A","N","T">>, <<"R","E","V","O","K","E">> >>

\* a validateTableSchema that tests the shape before the keywords
validateTableSchema_ShapeFirst(sql) ==
  IF Falsy(sql) \/ ~IsString(sql) THEN Throw("security.invalidSchema")
  ELSE LET upperSql == ToUpperCase(sql) IN
       IF ~MatchesBasicPattern(sql)
         THEN Throw("security.invalidSchemaFormat")
       ELSE IF \E k \in DOMAIN dangerousKeywords :
                 Includes(upperSql, dangerousKeywords[k])
         THEN Throw("security.dangerousKeyword")
         ELSE Ok(Trim(sql))

validateTableSchema(sql) ==
  IF Falsy(sql) \/ ~IsString(sql) THEN Throw("security.invalidSchema")
  ELSE LET upperSql == ToUpperCase(sql) IN
       IF \E k \in DOMAIN dangerousKeywords :
            Includes(upperSql, dangerousKeywords[k])
         THEN Throw("security.dangerousKeyword")
       ELSE IF ~MatchesBasicPattern(sql)
         THEN Throw("security.invalidSchemaFormat")
         ELSE Ok(Trim(sql))

\* ------------------------------------------------------------------------
\* Inputs of the model
\* ------------------------------------------------------------------------
Postgres == <<"p","o","s","t","g","r","e","s">>

AppDb == <<"a","p","p">>

Injection == <<"x","\"",";","-","-">>

DbNameInputs == {Postgres, AppDb, Injection, <<>>}

TUsers == <<"t">>

\* a table name PostgreSQL accepts when quoted, with a character outside
\* [A-Za-z0-9_]
TOdd == <<"t","-","1">>

TableNameInputs == {TUsers, TOdd, <<>>}

SqlPaddedSelect == <<" ","s","e","l","e","c","t"," ","1">>

SqlDelete == <<"d","e","l","e","t","e"," ","f","r","o","m"," ","t">>

SqlInputs == {SqlPaddedSelect, SqlDelete, <<>>}

\* what the user can type at the table-name prompt
RawTableNameInputs == {TUsers, <<" ","t">>, TOdd, <<>>}

SchemaOk == <<"i","d"," ","i","n","t">>

SchemaDrop ==
  <<"i","d"," ","i","n","t",";"," ","D","R","O","P"," ","T","A","B","L","E",
    " ","u">>

SchemaInputs == {SchemaOk, SchemaDrop, <<>>}

\* the rows a catalog query can return (column datname or table_name)
RowsAnswers == {<<>>, <<TUsers, TOdd>>}

\* the databases differ in what they hold, so that a value tells the
\* database it was read from: postgres answers as above, any other database
\* has at most the table t; the count column of SELECT COUNT(*) is 0 or 2
\* in postgres, 0 or 3 elsewhere
TablesIn(database) ==
  IF database = Postgres THEN RowsAnswers ELSE {<<>>, <<TUsers>>}

CountsIn(database) ==
  IF database = Postgres THEN {0, 2} ELSE {0, 3}

\* ------------------------------------------------------------------------
\* JavaScript values held in the cache and returned by the operations
\* ------------------------------------------------------------------------
Null == [t |-> "null", rows |-> <<>>, n |-> 0]

RowsVal(r) == [t |-> "rows", rows |-> r, n |-> 0]

CountVal(c) == [t |-> "count", rows |-> <<>>, n |-> c]

\* if (v): an array is truthy even when empty, the number 0 is not
Truthy(v) == v.t = "rows" \/ (v.t = "count" /\ v.n # 0)

\* ------------------------------------------------------------------------
\* State
\* ------------------------------------------------------------------------
VARIABLES
  pools,          \* every Pool object created so far, in creation order
  insts,          \* every DatabaseConnection object created so far
  db,             \* the instance the program holds (0 = null)
  currentConfig,  \* server.js: let currentConfig
  task,           \* the logical tasks (the CLI main loop, or HTTP requests)
  wire,           \* the statement the last step handed to pool.query
  now,            \* Date.now()
  lastSet         \* per key, the last setCache not followed by a clearCache

vars == <<pools, insts, db, currentConfig, task, wire, now, lastSet>>

Tasks == 1..MaxTasks

cacheTimeout == 30000

NoStmt ==
  [verb |-> "none", interp |-> FALSE, ident |-> <<>>, text |-> <<>>,
   params |-> <<>>, pool |-> 0]

Stmt(verb, interp, ident, text, params) ==
  [verb |-> verb, interp |-> interp, ident |-> ident, text |-> text,
   params |-> params, pool |-> 0]

\* constructor(): pool null, default configuration, empty cache
NewDatabaseConnection ==
  [pool |-> 0, database |-> Postgres, cache |-> {},
   login |-> [host |-> "localhost", port |-> "5432", user |-> "postgres",
              password |-> ""]]

IdleTask ==
  [pc |-> "idle", op |-> "none", inst |-> 0, arg |-> <<>>, arg2 |-> <<>>,
   err |-> "none", ret |-> Null, calls |-> 0, pool |-> 0, rej |-> FALSE,
   msg |-> "none", hadPool |-> 0, hadCache |-> FALSE]

\* ------------------------------------------------------------------------
\* The cache of a DatabaseConnection (src/src/db.js): a Map from key to
\* {value, timestamp}, here the set of its entries
\* ------------------------------------------------------------------------
\* the cache keys of listDatabases, listTables and getTableRowCount
KeyDatabases == <<"d","a","t","a","b","a","s","e","s">>

KeyTables(database) == <<"t","a","b","l","e","s","_">> \o database

KeyRowcount(tableName) == <<"r","o","w","c","o","u","n","t","_">> \o tableName

CacheHas(cache, key) == \E e \in cache : e.key = key

CacheEntry(cache, key) == CHOOSE e \in cache : e.key = key

setCache(cache, key, value, time) ==
  { e \in cache : e.key # key }
    \cup {[key |-> key, value |-> value, timestamp |-> time]}

\* a getCache that still answers at the full cacheTimeout
getCacheValue_InclusiveTtl(cache, key, time) ==
  IF CacheHas(cache, key)
     /\ (time - CacheEntry(cache, key).timestamp) <= cacheTimeout
    THEN CacheEntry(cache, key).value
    ELSE Null

\* the value getCache returns
getCacheValue(cache, key, time) ==
  IF CacheHas(cache, key)
     /\ (time - CacheEntry(cache, key).timestamp) < cacheTimeout
    THEN CacheEntry(cache, key).value
    ELSE Null

\* the cache getCache leaves behind: a hit changes nothing, anything else
\* deletes the key
getCacheAfter(cache, key, time) ==
  IF CacheHas(cache, key)
     /\ (time - CacheEntry(cache, key).timestamp) < cacheTimeout
    THEN cache
    ELSE { e \in cache : e.key # key }

\* a clearCache that forgets to drop the database list
clearCache_KeepsDatabases(cache) == { e \in cache : e.key = KeyDatabases }

clearCache(cache) == {}

\* the keys the cache is called with directly, and the record of no
\* setCache for any of them
DirectKeys == {KeyDatabases, KeyRowcount(TUsers)}

NeverSet == [k \in DirectKeys |-> [set |-> FALSE, value |-> Null, time |-> 0]]

\* ------------------------------------------------------------------------
\* Helpers of the actions
\* ------------------------------------------------------------------------
\* a task may start an operation when it has none in flight
CanCall(t) == task[t].pc \in {"idle", "done"}

\* the record of a task that starts operation op on instance i
Begin(op, i, arg, arg2) ==
  [IdleTask EXCEPT !.pc = "run", !.op = op, !.inst = i, !.arg = arg,
                   !.arg2 = arg2, !.hadPool = insts[i].pool,
                   !.hadCache = (insts[i].cache # {})]

\* the operation returns ret, or throws err
Finish(tk, err, ret) ==
  [tk EXCEPT !.pc = "done", !.err = err, !.ret = ret, !.arg2 = <<>>,
             !.pool = 0, !.rej = FALSE]

\* task t goes on as tk; the record of a task that finished earlier is
\* dropped, its result was delivered
SetTask(t, tk) ==
  task' = [u \in Tasks |->
             IF u = t THEN tk
             ELSE IF task[u].pc = "done" THEN IdleTask ELSE task[u]]

\* the answers the driver can give a statement sent on pool p: a pool on
\* which end() has been called rejects it, a live pool runs it and the
\* server answers with a result or an error (TRUE: the driver rejects)
Rejections(p) == IF pools[p].state # "live" THEN {TRUE} ELSE BOOLEAN

\* the outcome of the statement task t waits for
QueryOutcomes(t) ==
  IF task[t].rej THEN {"err"} ELSE {"ok"}

\* ------------------------------------------------------------------------
\* DatabaseConnection (src/src/db.js): the bodies of connect, disconnect
\* and query up to their await; they set task', wire' (and pools', insts'
\* where they change them)
\* ------------------------------------------------------------------------
\* a query without the check of this.pool: the call on null fails inside
\* the try block and is reported as a failed query
QueryStart_NoPoolCheck(t, i, tk, stmt, waitPc) ==
  IF insts[i].pool = 0
    THEN /\ SetTask(t, Finish(tk, "db.queryFailed", Null))
         /\ wire' = NoStmt
    ELSE /\ \E rejected \in Rejections(insts[i].pool) :
              SetTask(t, [tk EXCEPT !.pc = waitPc, !.calls = @ + 1,
                                    !.pool = insts[i].pool,
                                    !.rej = rejected])
         /\ wire' = [stmt EXCEPT !.pool = insts[i].pool]

\* query(sql, params), lines 76-81: throw when there is no pool, else call
\* pool.query and wait at waitPc
QueryStart(t, i, tk, stmt, waitPc) ==
  IF insts[i].pool = 0
    THEN /\ SetTask(t, Finish(tk, "db.notConnected", Null))
         /\ wire' = NoStmt
    ELSE /\ \E rejected \in Rejections(insts[i].pool) :
              SetTask(t, [tk EXCEPT !.pc = waitPc, !.calls = @ + 1,
                                    !.pool = insts[i].pool,
                                    !.rej = rejected])
         /\ wire' = [stmt EXCEPT !.pool = insts[i].pool]

\* a connect whose pool is always one for the default database
ConnectStart_DefaultDatabase(t, i, tk, inst, ins, pls, waitPc) ==
  \E created \in BOOLEAN :
    IF created
      THEN LET p == Len(pls) + 1 IN
           /\ pools' = Append(pls, [database |-> Postgres,
                                    login |-> inst.login,
                                    state |-> "live", ends |-> 0])
           /\ insts' = [ins EXCEPT ![i] = [inst EXCEPT !.pool = p]]
           /\ \E rejected \in BOOLEAN :
                SetTask(t, [tk EXCEPT !.pc = waitPc, !.calls = @ + 2,
                                      !.pool = p, !.rej = rejected])
           /\ wire' = [Stmt("SELECT NOW", FALSE, <<>>, <<>>, <<>>)
                         EXCEPT !.pool = p]
      ELSE /\ pools' = pls
           /\ insts' = [ins EXCEPT ![i] = inst]
           /\ SetTask(t, Finish([tk EXCEPT !.calls = @ + 1],
                                "db.connectionFailed", Null))
           /\ wire' = NoStmt

\* connect(), lines 48-52, on instance i whose record is inst, with the
\* instances ins and the pools pls as the caller left them: create the pool,
\* send the probe, wait at waitPc; a throwing constructor leaves this.pool
\* as it was
ConnectStart(t, i, tk, inst, ins, pls, waitPc) ==
  \E created \in BOOLEAN :
    IF created
      THEN LET p == Len(pls) + 1 IN
           \* new Pool(config): a Pool object for the configured database
           /\ pools' = Append(pls, [database |-> inst.database,
                                    login |-> inst.login,
                                    state |-> "live", ends |-> 0])
           /\ insts' = [ins EXCEPT ![i] = [inst EXCEPT !.pool = p]]
           /\ \E rejected \in BOOLEAN :
                SetTask(t, [tk EXCEPT !.pc = waitPc, !.calls = @ + 2,
                                      !.pool = p, !.rej = rejected])
           /\ wire' = [Stmt("SELECT NOW", FALSE, <<>>, <<>>, <<>>)
                         EXCEPT !.pool = p]
      ELSE /\ pools' = pls
           /\ insts' = [ins EXCEPT ![i] = inst]
           /\ SetTask(t, Finish([tk EXCEPT !.calls = @ + 1],
                                "db.connectionFailed", Null))
           /\ wire' = NoStmt

\* connect(), lines 52-56: the probe answers
ConnectFinish(t) ==
  \E outcome \in QueryOutcomes(t) :
    IF outcome = "ok"
      THEN SetTask(t, Finish(task[t], "none", Null))
      ELSE SetTask(t, Finish(task[t], "db.connectionFailed", Null))

\* disconnect(), lines 64-65 with a pool: call pool.end() and wait at
\* waitPc; end() rejects when it was already called on this pool
EndStart(t, i, tk, waitPc) ==
  LET p == insts[i].pool IN
  /\ pools[p].ends < MaxEnds
  /\ pools' = [pools EXCEPT ![p] =
                 [@ EXCEPT !.state = IF @ = "live" THEN "ending" ELSE @,
                           !.ends = @ + 1]]
  /\ SetTask(t, [tk EXCEPT !.pc = waitPc, !.calls = @ + 1, !.pool = p,
                           !.rej = (pools[p].state # "live")])

\* disconnect(), line 66 once pool.end() has resolved: the pools and the
\* instance record afterwards
EndedPools(t) == [pools EXCEPT ![task[t].pool].state = "ended"]

\* a disconnect that does not reset this.pool
EndedInst_KeepsPool(i) == insts[i]

EndedInst(i) == [insts[i] EXCEPT !.pool = 0]

\* ------------------------------------------------------------------------
\* The operations of DatabaseConnection, called by task t on instance db
\* ------------------------------------------------------------------------
\* a further Pool object fits the bound of the model, counting the callers
\* of switchDatabase that have still to create their pool
CanCreatePool ==
  Len(pools) + Cardinality({ t \in Tasks : task[t].pc = "switch:end" })
    < MaxPools

ConnectCall(t) ==
  /\ CanCall(t) /\ db # 0
  /\ CanCreatePool
  /\ ConnectStart(t, db, Begin("connect", db, <<>>, <<>>), insts[db], insts,
                  pools,
                  "connect:probe")
  /\ UNCHANGED <<db, currentConfig, now, lastSet>>

ConnectResume(t) ==
  /\ task[t].pc = "connect:probe"
  /\ ConnectFinish(t)
  /\ UNCHANGED <<pools, insts, db, currentConfig, now, lastSet>> /\ wire' = NoStmt

DisconnectCall(t) ==
  /\ CanCall(t) /\ db # 0
  /\ IF insts[db].pool = 0
       THEN /\ SetTask(t, Finish(Begin("disconnect", db, <<>>, <<>>),
                                 "none", Null))
            /\ UNCHANGED pools
       ELSE EndStart(t, db, Begin("disconnect", db, <<>>, <<>>),
                     "disconnect:end")
  /\ UNCHANGED <<insts, db, currentConfig, now, lastSet>> /\ wire' = NoStmt

DisconnectResume(t) ==
  /\ task[t].pc = "disconnect:end"
  /\ IF task[t].rej
       THEN /\ SetTask(t, Finish(task[t], "pg.endCalledTwice", Null))
            /\ UNCHANGED <<pools, insts>>
       ELSE /\ pools' = EndedPools(t)
            /\ insts' = [insts EXCEPT ![task[t].inst] = EndedInst(task[t].inst)]
            /\ SetTask(t, Finish(task[t], "none", Null))
  /\ UNCHANGED <<db, currentConfig, now, lastSet>> /\ wire' = NoStmt

\* query(sql, params) called directly
QueryCall(t) ==
  /\ CanCall(t) /\ db # 0
  /\ \E sql \in SqlInputs :
       QueryStart(t, db, Begin("query", db, sql, <<>>),
                  Stmt("CUSTOM", FALSE, <<>>, sql, <<>>), "query:wait")
  /\ UNCHANGED <<pools, insts, db, currentConfig, now, lastSet>>

\* query(), lines 81-85: the result, or the driver's error wrapped
QueryResume(t) ==
  /\ task[t].pc = "query:wait"
  /\ \E outcome \in QueryOutcomes(t) :
       IF outcome = "ok"
         THEN \E rows \in RowsAnswers :
                SetTask(t, Finish(task[t], "none", RowsVal(rows)))
         ELSE SetTask(t, Finish(task[t], "db.queryFailed", Null))
  /\ UNCHANGED <<pools, insts, db, currentConfig, now, lastSet>> /\ wire' = NoStmt

ListDatabasesCall(t) ==
  /\ CanCall(t) /\ db # 0
  /\ LET tk == Begin("listDatabases", db, <<>>, <<>>)
         cached == getCacheValue(insts[db].cache, KeyDatabases, now)
     IN /\ insts' = [insts EXCEPT ![db].cache =
                       getCacheAfter(@, KeyDatabases, now)]
        /\ IF Truthy(cached)
             THEN /\ SetTask(t, Finish(tk, "none", cached))
                  /\ wire' = NoStmt
             ELSE QueryStart(t, db, tk,
                             Stmt("LIST DATABASES", FALSE, <<>>, <<>>, <<>>),
                             "listDatabases:query")
  /\ UNCHANGED <<pools, db, currentConfig, now, lastSet>>

ListDatabasesResume(t) ==
  /\ task[t].pc = "listDatabases:query"
  /\ \E outcome \in QueryOutcomes(t) :
       IF outcome = "ok"
         THEN \E rows \in {<<AppDb, Postgres>>} :
                /\ insts' = [insts EXCEPT ![task[t].inst].cache =
                               setCache(@, KeyDatabases, RowsVal(rows), now)]
                /\ SetTask(t, Finish(task[t], "none", RowsVal(rows)))
         ELSE /\ SetTask(t, Finish(task[t], "db.queryFailed", Null))
              /\ UNCHANGED insts
  /\ UNCHANGED <<pools, db, currentConfig, now, lastSet>> /\ wire' = NoStmt

\* createDatabase(name), lines 170-174
CreateDatabaseStart(t, name) ==
  IF ~isValidDatabaseName(name)
    THEN /\ SetTask(t, Finish(Begin("createDatabase", db, name, <<>>),
                              "security.invalidIdentifier", Null))
         /\ wire' = NoStmt
    ELSE QueryStart(t, db, Begin("createDatabase", db, name, <<>>),
                    Stmt("CREATE DATABASE", TRUE, name, <<>>, <<>>),
                    "createDatabase:query")

CreateDatabaseCall(t) ==
  /\ CanCall(t) /\ db # 0
  /\ \E name \in DbNameInputs : CreateDatabaseStart(t, name)
  /\ UNCHANGED <<pools, insts, db, currentConfig, now, lastSet>>

CreateDatabaseResume(t) ==
  /\ task[t].pc = "createDatabase:query"
  /\ \E outcome \in QueryOutcomes(t) :
       IF outcome = "ok"
         THEN /\ insts' = [insts EXCEPT ![task[t].inst].cache = clearCache(@)]
              /\ SetTask(t, Finish(task[t], "none", Null))
         ELSE /\ SetTask(t, Finish(task[t], "db.queryFailed", Null))
              /\ UNCHANGED insts
  /\ UNCHANGED <<pools, db, currentConfig, now, lastSet>> /\ wire' = NoStmt

\* dropDatabase(name), lines 182-186
DropDatabaseStart(t, name) ==
  IF ~isValidDatabaseName(name)
    THEN /\ SetTask(t, Finish(Begin("dropDatabase", db, name, <<>>),
                              "security.invalidIdentifier", Null))
         /\ wire' = NoStmt
    ELSE QueryStart(t, db, Begin("dropDatabase", db, name, <<>>),
                    Stmt("DROP DATABASE IF EXISTS", TRUE, name, <<>>, <<>>),
                    "dropDatabase:query")

DropDatabaseCall(t) ==
  /\ CanCall(t) /\ db # 0
  /\ \E name \in DbNameInputs : DropDatabaseStart(t, name)
  /\ UNCHANGED <<pools, insts, db, currentConfig, now, lastSet>>

DropDatabaseResume(t) ==
  /\ task[t].pc = "dropDatabase:query"
  /\ \E outcome \in QueryOutcomes(t) :
       IF outcome = "ok"
         THEN /\ insts' = [insts EXCEPT ![task[t].inst].cache = clearCache(@)]
              /\ SetTask(t, Finish(task[t], "none", Null))
         ELSE /\ SetTask(t, Finish(task[t], "db.queryFailed", Null))
              /\ UNCHANGED insts
  /\ UNCHANGED <<pools, db, currentConfig, now, lastSet>> /\ wire' = NoStmt

\* a switchDatabase that reconnects without changing config.database
SwitchedInst_OldDatabase(inst, name) == [inst EXCEPT !.cache = clearCache(@)]

\* switchDatabase(name), lines 200-201: the instance after the old pool is
\* gone and before connect()
SwitchedInst(inst, name) ==
  [inst EXCEPT !.database = name, !.cache = clearCache(@)]

\* a switchDatabase that does not validate the name
SwitchDatabaseStart_NoCheck(t, name) ==
  LET tk == Begin("switchDatabase", db, name, <<>>) IN
  IF insts[db].pool = 0
    THEN ConnectStart(t, db, tk, SwitchedInst(insts[db], name), insts,
                      pools, "switch:probe")
    ELSE /\ EndStart(t, db, tk, "switch:end")
         /\ UNCHANGED insts /\ wire' = NoStmt

\* switchDatabase(name), lines 196-199: validate, then disconnect; with no
\* pool the disconnect returns at once and the reconnect follows
SwitchDatabaseStart(t, name) ==
  LET tk == Begin("switchDatabase", db, name, <<>>) IN
  IF ~isValidDatabaseName(name)
    THEN /\ SetTask(t, Finish(tk, "security.invalidIdentifier", Null))
         /\ UNCHANGED <<pools, insts>> /\ wire' = NoStmt
    ELSE IF insts[db].pool = 0
      THEN ConnectStart(t, db, tk, SwitchedInst(insts[db], name), insts,
                        pools, "switch:probe")
      ELSE /\ EndStart(t, db, tk, "switch:end")
           /\ UNCHANGED insts /\ wire' = NoStmt

SwitchDatabaseCall(t) ==
  /\ CanCall(t) /\ db # 0
  /\ CanCreatePool
  /\ \E name \in DbNameInputs : SwitchDatabaseStart(t, name)
  /\ UNCHANGED <<db, currentConfig, now, lastSet>>

\* switchDatabase(name), lines 199-202: pool.end() has answered
SwitchDatabaseDisconnected(t) ==
  /\ task[t].pc = "switch:end"
  /\ IF task[t].rej
       THEN /\ SetTask(t, Finish(task[t], "pg.endCalledTwice", Null))
            /\ UNCHANGED <<pools, insts>> /\ wire' = NoStmt
       ELSE ConnectStart(t, task[t].inst, task[t],
                         SwitchedInst(EndedInst(task[t].inst), task[t].arg),
                         insts, EndedPools(t), "switch:probe")
  /\ UNCHANGED <<db, currentConfig, now, lastSet>>

\* the callers of statements that an ended pool has answered have run on:
\* their continuations are queued when the pool ends, before any later
\* answer arrives from the network
AnswersDelivered ==
  \A u \in Tasks :
    (task[u].pc \in {"listTables:query", "getTableRowCount:query"})
      => pools[task[u].pool].state # "ended"

\* switchDatabase(name), line 202: the probe of connect() has answered
SwitchDatabaseConnected(t) ==
  /\ task[t].pc = "switch:probe"
  /\ AnswersDelivered
  /\ ConnectFinish(t)
  /\ UNCHANGED <<pools, insts, db, currentConfig, now, lastSet>> /\ wire' = NoStmt

\* listTables(), lines 210-221, for a caller that goes on at hitPc when the
\* cache answers and waits at waitPc for the driver otherwise
ListTablesStart(t, i, tk, hitPc, waitPc) ==
  LET cacheKey == KeyTables(insts[i].database)
      cached == getCacheValue(insts[i].cache, cacheKey, now)
  IN /\ insts' = [insts EXCEPT ![i].cache = getCacheAfter(@, cacheKey, now)]
     /\ IF Truthy(cached)
          THEN /\ SetTask(t, [tk EXCEPT !.pc = hitPc, !.ret = cached])
               /\ wire' = NoStmt
          ELSE QueryStart(t, i, [tk EXCEPT !.arg2 = cacheKey],
                          Stmt("LIST TABLES", FALSE, <<>>, <<>>, <<>>),
                          waitPc)

\* listTables(), lines 222-223, for a caller that goes on at nextPc; the
\* key was computed before the await
ListTablesFinish(t, nextPc) ==
  \E outcome \in QueryOutcomes(t) :
    IF outcome = "ok"
      THEN \E rows \in TablesIn(pools[task[t].pool].database) :
             /\ insts' = [insts EXCEPT ![task[t].inst].cache =
                            setCache(@, task[t].arg2, RowsVal(rows), now)]
             /\ SetTask(t, [task[t] EXCEPT !.pc = nextPc,
                                           !.ret = RowsVal(rows)])
      ELSE /\ SetTask(t, Finish(task[t], "db.queryFailed", Null))
           /\ UNCHANGED insts

ListTablesCall(t) ==
  /\ CanCall(t) /\ db # 0
  /\ ListTablesStart(t, db, Begin("listTables", db, <<>>, <<>>),
                     "done", "listTables:query")
  /\ UNCHANGED <<pools, db, currentConfig, now, lastSet>>

ListTablesResume(t) ==
  /\ task[t].pc = "listTables:query"
  /\ ListTablesFinish(t, "done")
  /\ UNCHANGED <<pools, db, currentConfig, now, lastSet>> /\ wire' = NoStmt

\* describeTable(tableName), lines 232-248: the name is bound as $1
DescribeTableStart(t, tableName) ==
  IF ~isValidTableName(tableName)
    THEN /\ SetTask(t, Finish(Begin("describeTable", db, tableName, <<>>),
                              "security.invalidIdentifier", Null))
         /\ wire' = NoStmt
    ELSE QueryStart(t, db, Begin("describeTable", db, tableName, <<>>),
                    Stmt("DESCRIBE", FALSE, <<>>, <<>>, <<tableName>>),
                    "describeTable:query")

DescribeTableCall(t) ==
  /\ CanCall(t) /\ db # 0
  /\ \E tableName \in TableNameInputs : DescribeTableStart(t, tableName)
  /\ UNCHANGED <<pools, insts, db, currentConfig, now, lastSet>>

\* a describeTable that stores its result in the cache, as listTables does
DescribeTableResume_Caches(t) ==
  /\ task[t].pc = "describeTable:query"
  /\ \E outcome \in QueryOutcomes(t) :
       IF outcome = "ok"
         THEN \E rows \in RowsAnswers :
                /\ insts' = [insts EXCEPT ![task[t].inst].cache =
                               setCache(@, <<"c","o","l","u","m","n","s","_">>
                                             \o task[t].arg,
                                        RowsVal(rows), now)]
                /\ SetTask(t, Finish(task[t], "none", RowsVal(rows)))
         ELSE /\ SetTask(t, Finish(task[t], "db.queryFailed", Null))
              /\ UNCHANGED insts
  /\ UNCHANGED <<pools, db, currentConfig, now, lastSet>> /\ wire' = NoStmt

DescribeTableResume(t) ==
  /\ task[t].pc = "describeTable:query"
  /\ \E outcome \in QueryOutcomes(t) :
       IF outcome = "ok"
         THEN \E rows \in RowsAnswers :
                SetTask(t, Finish(task[t], "none", RowsVal(rows)))
         ELSE SetTask(t, Finish(task[t], "db.queryFailed", Null))
  /\ UNCHANGED <<pools, insts, db, currentConfig, now, lastSet>> /\ wire' = NoStmt

\* safeIdentifierQuery(sql, identifier, params), lines 106-109: the text put
\* between the quotes is the sanitized identifier
SafeIdentifierQueryStart(t, i, tk, verb, identifier, params, waitPc) ==
  LET safeIdentifier == sanitizeIdentifier(identifier) IN
  IF ~safeIdentifier.ok
    THEN /\ SetTask(t, Finish(tk, safeIdentifier.err, Null))
         /\ wire' = NoStmt
    ELSE QueryStart(t, i, tk, Stmt(verb, TRUE, safeIdentifier.val, <<>>, params),
                    waitPc)

\* getTableRowCount(tableName), lines 258-272
GetTableRowCountStart(t, tableName) ==
  LET tk == Begin("getTableRowCount", db, tableName, <<>>) IN
  IF ~isValidTableName(tableName)
    THEN /\ SetTask(t, Finish(tk, "security.invalidIdentifier", Null))
         /\ UNCHANGED insts /\ wire' = NoStmt
    ELSE LET cacheKey == KeyRowcount(tableName)
             cached == getCacheValue(insts[db].cache, cacheKey, now)
         IN /\ insts' = [insts EXCEPT ![db].cache =
                           getCacheAfter(@, cacheKey, now)]
            /\ IF Truthy(cached)
                 THEN /\ SetTask(t, Finish(tk, "none", cached))
                      /\ wire' = NoStmt
                 ELSE SafeIdentifierQueryStart(t, db, tk, "SELECT COUNT",
                                               tableName, <<>>,
                                               "getTableRowCount:query")

GetTableRowCountCall(t) ==
  /\ CanCall(t) /\ db # 0
  /\ \E tableName \in TableNameInputs : GetTableRowCountStart(t, tableName)
  /\ UNCHANGED <<pools, db, currentConfig, now, lastSet>>

\* getTableRowCount(tableName), lines 273-275
GetTableRowCountResume(t) ==
  /\ task[t].pc = "getTableRowCount:query"
  /\ \E outcome \in QueryOutcomes(t) :
       IF outcome = "ok"
         THEN \E count \in CountsIn(pools[task[t].pool].database) :
                /\ insts' = [insts EXCEPT ![task[t].inst].cache =
                               setCache(@, KeyRowcount(task[t].arg),
                                        CountVal(count), now)]
                /\ SetTask(t, Finish(task[t], "none", CountVal(count)))
         ELSE /\ SetTask(t, Finish(task[t], "db.queryFailed", Null))
              /\ UNCHANGED insts
  /\ UNCHANGED <<pools, db, currentConfig, now, lastSet>> /\ wire' = NoStmt

\* ------------------------------------------------------------------------
\* The menu flows of the command-line tool (src/unnamed/part_001).  A prompt
\* with a validate callback asks again until the callback accepts, so the
\* answer is any input the callback accepts; the answer is the text as
\* typed, the callback trims only its own copy.
\* ------------------------------------------------------------------------
\* createTable, lines 377-381: the validate callback of the name prompt
AcceptsTableName(input) ==
  LET trimmed == Trim(input) IN
  trimmed # <<>> /\ isValidTableName(trimmed)

\* createTable, lines 389-397: the validate callback of the schema prompt
AcceptsSchema(input) ==
  LET trimmed == Trim(input) IN
  trimmed # <<>> /\ validateTableSchema(trimmed).ok

\* executeCustomQuery, lines 454-463: the validate callback of the prompt
AcceptsQuery(input) ==
  LET trimmed == Trim(input) IN
  trimmed # <<>> /\ validateCustomQuery(trimmed).ok

\* createTable, lines 372-402
MenuCreateTableCall(t) ==
  /\ CanCall(t) /\ db # 0
  /\ \E name \in { x \in RawTableNameInputs : IsString(x) /\ AcceptsTableName(x) },
        sql \in { x \in SchemaInputs : IsString(x) /\ AcceptsSchema(x) } :
       QueryStart(t, db, Begin("menu.createTable", db, name, sql),
                  Stmt("CREATE TABLE", TRUE, name, sql, <<>>),
                  "menu.createTable:query")
  /\ UNCHANGED <<pools, insts, db, currentConfig, now, lastSet>>

\* createTable, lines 402-404
MenuCreateTableResume(t) ==
  /\ task[t].pc = "menu.createTable:query"
  /\ \E outcome \in QueryOutcomes(t) :
       IF outcome = "ok"
         THEN /\ insts' = [insts EXCEPT ![task[t].inst].cache = clearCache(@)]
              /\ SetTask(t, [Finish(task[t], "none", Null)
                               EXCEPT !.msg = "table.created"])
         ELSE /\ SetTask(t, Finish(task[t], "db.queryFailed", Null))
              /\ UNCHANGED insts
  /\ UNCHANGED <<pools, db, currentConfig, now, lastSet>> /\ wire' = NoStmt

\* dropTable, line 413
MenuDropTableCall(t) ==
  /\ CanCall(t) /\ db # 0
  /\ ListTablesStart(t, db, Begin("menu.dropTable", db, <<>>, <<>>),
                     "menu.dropTable:prompt", "menu.dropTable:list")
  /\ UNCHANGED <<pools, db, currentConfig, now, lastSet>>

MenuDropTableListed(t) ==
  /\ task[t].pc = "menu.dropTable:list"
  /\ ListTablesFinish(t, "menu.dropTable:prompt")
  /\ UNCHANGED <<pools, db, currentConfig, now, lastSet>> /\ wire' = NoStmt

\* dropTable, lines 414-435: the list prompt offers the names listTables
\* returned
MenuDropTablePrompt(t) ==
  /\ task[t].pc = "menu.dropTable:prompt"
  /\ LET tables == task[t].ret.rows IN
     IF Len(tables) = 0
       THEN /\ SetTask(t, [Finish(task[t], "none", Null)
                             EXCEPT !.msg = "table.noTables"])
            /\ wire' = NoStmt
       ELSE \E k \in DOMAIN tables, confirm \in BOOLEAN :
              IF confirm
                THEN QueryStart(t, task[t].inst,
                                [task[t] EXCEPT !.arg = tables[k]],
                                Stmt("DROP TABLE", TRUE, tables[k], <<>>, <<>>),
                                "menu.dropTable:query")
                ELSE /\ SetTask(t, [Finish(task[t], "none", Null)
                                      EXCEPT !.msg = "table.cancelled"])
                     /\ wire' = NoStmt
  /\ UNCHANGED <<pools, insts, db, currentConfig, now, lastSet>>

\* dropTable, lines 435-436
MenuDropTableResume(t) ==
  /\ task[t].pc = "menu.dropTable:query"
  /\ \E outcome \in QueryOutcomes(t) :
       IF outcome = "ok"
         THEN SetTask(t, [Finish(task[t], "none", Null)
                            EXCEPT !.msg = "table.dropped"])
         ELSE SetTask(t, Finish(task[t], "db.queryFailed", Null))
  /\ UNCHANGED <<pools, insts, db, currentConfig, now, lastSet>> /\ wire' = NoStmt

\* what the user can type at the rows prompt of viewTableData
LimitInputs == {<<"1","0">>, <<"0">>, <<"1","2","a","b","c">>, <<"a","b","c">>}

\* viewTableData, line 290
MenuViewTableDataCall(t) ==
  /\ CanCall(t) /\ db # 0
  /\ ListTablesStart(t, db, Begin("menu.viewTableData", db, <<>>, <<>>),
                     "menu.viewTableData:prompt", "menu.viewTableData:list")
  /\ UNCHANGED <<pools, db, currentConfig, now, lastSet>>

MenuViewTableDataListed(t) ==
  /\ task[t].pc = "menu.viewTableData:list"
  /\ ListTablesFinish(t, "menu.viewTableData:prompt")
  /\ UNCHANGED <<pools, db, currentConfig, now, lastSet>> /\ wire' = NoStmt

\* viewTableData, lines 291-324: the list prompt offers the names listTables
\* returned, the rows prompt returns an answer its validate callback
\* accepted
MenuViewTableDataPrompt(t) ==
  /\ task[t].pc = "menu.viewTableData:prompt"
  /\ LET tables == task[t].ret.rows IN
     IF Len(tables) = 0
       THEN /\ SetTask(t, [Finish(task[t], "none", Null)
                             EXCEPT !.msg = "table.noTables"])
            /\ wire' = NoStmt
       ELSE \E k \in DOMAIN tables,
               input \in { x \in LimitInputs : validateLimit(x).ok } :
              LET limit == validateLimit(input).val IN
              SafeIdentifierQueryStart(t, task[t].inst,
                                       [task[t] EXCEPT !.arg = tables[k]],
                                       "SELECT ROWS", tables[k], <<limit>>,
                                       "menu.viewTableData:query")
  /\ UNCHANGED <<pools, insts, db, currentConfig, now, lastSet>>

\* viewTableData, lines 324-350
MenuViewTableDataResume(t) ==
  /\ task[t].pc = "menu.viewTableData:query"
  /\ \E outcome \in QueryOutcomes(t) :
       IF outcome = "ok"
         THEN \E empty \in BOOLEAN :
                SetTask(t, [Finish(task[t], "none", Null)
                              EXCEPT !.msg = IF empty THEN "table.empty"
                                             ELSE "table.viewTitle"])
         ELSE SetTask(t, Finish(task[t], "db.queryFailed", Null))
  /\ UNCHANGED <<pools, insts, db, currentConfig, now, lastSet>> /\ wire' = NoStmt

\* executeCustomQuery, lines 449-470
MenuCustomQueryCall(t) ==
  /\ CanCall(t) /\ db # 0
  /\ \E sql \in { x \in SqlInputs : IsString(x) /\ AcceptsQuery(x) } :
       QueryStart(t, db, Begin("menu.executeCustomQuery", db, sql, <<>>),
                  Stmt("CUSTOM", FALSE, <<>>, sql, <<>>),
                  "menu.executeCustomQuery:query")
  /\ UNCHANGED <<pools, insts, db, currentConfig, now, lastSet>>

\* executeCustomQuery, lines 470-510
MenuCustomQueryResume(t) ==
  /\ task[t].pc = "menu.executeCustomQuery:query"
  /\ \E outcome \in QueryOutcomes(t) :
       IF outcome = "ok"
         THEN \E rows \in RowsAnswers :
                SetTask(t, [Finish(task[t], "none", RowsVal(rows))
                              EXCEPT !.msg = "query.executed"])
         ELSE SetTask(t, Finish(task[t], "db.queryFailed", Null))
  /\ UNCHANGED <<pools, insts, db, currentConfig, now, lastSet>> /\ wire' = NoStmt

\* ------------------------------------------------------------------------
\* The HTTP handlers (src/src/server.js).  Every request is a task; the
\* handlers share the globals db and currentConfig and interleave at their
\* awaits.
\* ------------------------------------------------------------------------
WebDbInputs == {Postgres, AppDb}

\* host, port, user and password of the body of POST /api/connect
WebLoginInput ==
  [host |-> "db.example", port |-> "5433", user |-> "app",
   password |-> "secret"]

\* POST /api/switch-database line 168, { ...currentConfig, database }: the
\* fields currentConfig holds, and undefined for the one it does not
SpreadCurrentConfig ==
  [host |-> currentConfig.host, port |-> currentConfig.port,
   user |-> currentConfig.user, password |-> "undefined"]

\* the body or route parameter "name" of a table request
WebTableNameInputs == {TUsers, Injection, <<>>}

\* the record of a handler once its statement is sent: it uses its inputs
\* no more
Sent(tk) == [tk EXCEPT !.arg = <<>>, !.arg2 = <<>>, !.inst = 0]

\* a web task record: as Begin, for a handler that may run before any
\* instance exists
WebBegin(op, arg, arg2) ==
  [IdleTask EXCEPT !.pc = "run", !.op = op, !.inst = db, !.arg = arg,
                   !.arg2 = arg2]

\* a further instance and pool fit the bounds of the model, counting the
\* requests that have still to create theirs
CanCreate ==
  LET creating ==
        { t \in Tasks : task[t].pc \in {"web.connect:end", "web.switch:end"} }
  IN /\ Len(insts) + Cardinality(creating) < MaxInsts
     /\ Len(pools) + Cardinality(creating) < MaxPools

\* POST /api/connect lines 43-46 and POST /api/switch-database lines 167-169:
\* db = new DatabaseConnection(); db.config = {..., database}; db.connect()
WebReconnect(t, tk, database, login, ins, pls, waitPc) ==
  LET i == Len(ins) + 1
      inst == [NewDatabaseConnection EXCEPT !.database = database,
                                            !.login = login]
  IN /\ db' = i
     /\ ConnectStart(t, i, [tk EXCEPT !.inst = i], inst, Append(ins, inst),
                     pls, waitPc)

\* a POST /api/connect that creates the new connection without
\* disconnecting the one it replaces
WebConnectCall_NoDisconnect(t) ==
  /\ CanCall(t) /\ CanCreate
  /\ \E database \in WebDbInputs :
       WebReconnect(t, WebBegin("POST /api/connect", database, <<>>),
                    database, WebLoginInput, insts, pools,
                    "web.connect:probe")
  /\ UNCHANGED <<currentConfig, now, lastSet>>

\* POST /api/connect, lines 33-46
WebConnectCall(t) ==
  /\ CanCall(t) /\ CanCreate
  /\ \E database \in WebDbInputs :
       LET tk == WebBegin("POST /api/connect", database, <<>>) IN
       IF db # 0 /\ insts[db].pool # 0
         THEN /\ EndStart(t, db, tk, "web.connect:end")
              /\ UNCHANGED <<insts, db>> /\ wire' = NoStmt
         ELSE WebReconnect(t, tk, database, WebLoginInput, insts, pools,
                           "web.connect:probe")
  /\ UNCHANGED <<currentConfig, now, lastSet>>

\* POST /api/connect, lines 39-46: db.disconnect() has answered
WebConnectDisconnected(t) ==
  /\ task[t].pc = "web.connect:end"
  /\ IF task[t].rej
       THEN /\ SetTask(t, Finish(task[t], "pg.endCalledTwice", Null))
            /\ UNCHANGED <<pools, insts, db>> /\ wire' = NoStmt
       ELSE WebReconnect(t, task[t], task[t].arg, WebLoginInput,
                         [insts EXCEPT ![task[t].inst] = EndedInst(task[t].inst)],
                         EndedPools(t), "web.connect:probe")
  /\ UNCHANGED <<currentConfig, now, lastSet>>

\* POST /api/connect, lines 46-59
WebConnectResume(t) ==
  /\ task[t].pc = "web.connect:probe"
  /\ \E outcome \in QueryOutcomes(t) :
       IF outcome = "ok"
         THEN /\ currentConfig' =
                   [set |-> TRUE, host |-> WebLoginInput.host,
                    port |-> WebLoginInput.port, user |-> WebLoginInput.user,
                    database |-> task[t].arg]
              /\ SetTask(t, Finish(task[t], "none", Null))
         ELSE /\ SetTask(t, Finish(task[t], "db.connectionFailed", Null))
              /\ UNCHANGED currentConfig
  /\ UNCHANGED <<pools, insts, db, now, lastSet>> /\ wire' = NoStmt

\* POST /api/switch-database, lines 155-169
WebSwitchCall(t) ==
  /\ CanCall(t) /\ CanCreate
  /\ \E database \in WebDbInputs :
       LET tk == WebBegin("POST /api/switch-database", database, <<>>) IN
       IF db = 0 \/ ~currentConfig.set
         THEN /\ SetTask(t, Finish(tk, "web.notConnected", Null))
              /\ UNCHANGED <<pools, insts, db>> /\ wire' = NoStmt
         ELSE IF insts[db].pool # 0
           THEN /\ EndStart(t, db, tk, "web.switch:end")
                /\ UNCHANGED <<insts, db>> /\ wire' = NoStmt
           ELSE WebReconnect(t, tk, database, SpreadCurrentConfig, insts,
                             pools, "web.switch:probe")
  /\ UNCHANGED <<currentConfig, now, lastSet>>

\* POST /api/switch-database, lines 164-169
WebSwitchDisconnected(t) ==
  /\ task[t].pc = "web.switch:end"
  /\ IF task[t].rej
       THEN /\ SetTask(t, Finish(task[t], "pg.endCalledTwice", Null))
            /\ UNCHANGED <<pools, insts, db>> /\ wire' = NoStmt
       ELSE WebReconnect(t, task[t], task[t].arg, SpreadCurrentConfig,
                         [insts EXCEPT ![task[t].inst] = EndedInst(task[t].inst)],
                         EndedPools(t), "web.switch:probe")
  /\ UNCHANGED <<currentConfig, now, lastSet>>

\* POST /api/switch-database, lines 169-183
WebSwitchResume(t) ==
  /\ task[t].pc = "web.switch:probe"
  /\ \E outcome \in QueryOutcomes(t) :
       IF outcome = "ok"
         THEN /\ currentConfig' = [currentConfig EXCEPT !.database = task[t].arg]
              /\ SetTask(t, Finish(task[t], "none", Null))
         ELSE /\ SetTask(t, Finish(task[t], "db.connectionFailed", Null))
              /\ UNCHANGED currentConfig
  /\ UNCHANGED <<pools, insts, db, now, lastSet>> /\ wire' = NoStmt

\* the value GET /api/tables answers with: the tables, and the positions
\* of those whose rowcount is the 0 of the catch block (the other counts
\* are the numbers the database gave)
TablesVal(rows, zeroed) ==
  [t |-> "tables", rows |-> rows, n |-> 0, zeroed |-> zeroed]

\* GET /api/tables, lines 189-204
WebListTablesCall(t) ==
  /\ CanCall(t)
  /\ LET tk == WebBegin("GET /api/tables", <<>>, <<>>) IN
     IF db = 0
       THEN SetTask(t, Finish(tk, "web.notConnected", Null)) /\ wire' = NoStmt
       ELSE QueryStart(t, db, Sent(tk),
                       Stmt("LIST TABLES", FALSE, <<>>, <<>>, <<>>),
                       "web.listTables:list")
  /\ UNCHANGED <<pools, insts, db, currentConfig, now, lastSet>>

\* GET /api/tables, lines 195-216: the list has answered; Promise.all over
\* the rows calls db.query once per table before any of them answers, with
\* the name of the table between the quotes.  A db.query that throws
\* db.notConnected is caught as the driver's errors are (line 217).
WebListTablesListed(t) ==
  /\ task[t].pc = "web.listTables:list"
  /\ \E outcome \in QueryOutcomes(t) :
       IF outcome = "err"
         THEN /\ SetTask(t, Finish(task[t], "db.queryFailed", Null))
              /\ wire' = NoStmt
         ELSE \E rows \in TablesIn(pools[task[t].pool].database) :
                IF rows = <<>>
                  THEN /\ SetTask(t, Finish(task[t], "none",
                                            TablesVal(rows, {})))
                       /\ wire' = NoStmt
                ELSE IF insts[db].pool = 0
                  THEN /\ SetTask(t, Finish(task[t], "none",
                                            TablesVal(rows, DOMAIN rows)))
                       /\ wire' = NoStmt
                  ELSE LET p == insts[db].pool IN
                       \E rejs \in [DOMAIN rows -> Rejections(p)],
                          k \in DOMAIN rows :
                         /\ SetTask(t, [task[t] EXCEPT
                                          !.pc = "web.listTables:counts",
                                          !.calls = @ + Len(rows),
                                          !.pool = p,
                                          !.arg2 = rejs,
                                          !.rej = rejs[1],
                                          !.ret = TablesVal(rows, {})])
                         /\ wire' = [Stmt("SELECT COUNT", TRUE, rows[k],
                                          <<>>, <<>>) EXCEPT !.pool = p]
  /\ UNCHANGED <<pools, insts, db, currentConfig, now, lastSet>>

\* GET /api/tables, lines 210-218 and 222-225: the next count answers; its
\* value is kept, its error becomes rowcount 0, and after the last answer
\* the response is sent
WebListTablesCounted(t) ==
  /\ task[t].pc = "web.listTables:counts"
  /\ LET rest == Tail(task[t].arg2)
         k == Len(task[t].ret.rows) - Len(rest)
         val == TablesVal(task[t].ret.rows,
                          task[t].ret.zeroed
                            \cup (IF task[t].rej THEN {k} ELSE {}))
     IN IF rest = <<>>
          THEN SetTask(t, Finish(task[t], "none", val))
          ELSE SetTask(t, [task[t] EXCEPT !.arg2 = rest, !.rej = Head(rest),
                                          !.ret = val])
  /\ UNCHANGED <<pools, insts, db, currentConfig, now, lastSet>>
  /\ wire' = NoStmt

\* POST /api/tables, lines 238-250
WebCreateTableCall(t) ==
  /\ CanCall(t)
  /\ \E name \in WebTableNameInputs, columns \in SchemaInputs :
       LET tk == WebBegin("POST /api/tables", name, columns) IN
       IF db = 0
         THEN SetTask(t, Finish(tk, "web.notConnected", Null)) /\ wire' = NoStmt
         ELSE IF Falsy(name) \/ Falsy(columns)
           THEN SetTask(t, Finish(tk, "web.emptyInput", Null)) /\ wire' = NoStmt
           ELSE QueryStart(t, db, Sent(tk),
                           Stmt("CREATE TABLE", TRUE, name, columns, <<>>),
                           "web.createTable:query")
  /\ UNCHANGED <<pools, insts, db, currentConfig, now, lastSet>>

\* DELETE /api/tables/:name, lines 267-275; a route parameter is not empty
WebDropTableCall(t) ==
  /\ CanCall(t)
  /\ \E name \in WebTableNameInputs \ {<<>>} :
       LET tk == WebBegin("DELETE /api/tables/:name", name, <<>>) IN
       IF db = 0
         THEN SetTask(t, Finish(tk, "web.notConnected", Null)) /\ wire' = NoStmt
         ELSE QueryStart(t, db, Sent(tk),
                         Stmt("DROP TABLE", TRUE, name, <<>>, <<>>),
                         "web.dropTable:query")
  /\ UNCHANGED <<pools, insts, db, currentConfig, now, lastSet>>

\* a DELETE /api/databases/:name without the check of the system databases
WebDropDatabaseCall_NoGuard(t) ==
  /\ CanCall(t)
  /\ \E name \in {Postgres, AppDb,
                  <<"t","e","m","p","l","a","t","e","0">>,
                  <<"t","e","m","p","l","a","t","e","1">>} :
       LET tk == WebBegin("DELETE /api/databases/:name", name, <<>>) IN
       IF db = 0
         THEN SetTask(t, Finish(tk, "web.notConnected", Null)) /\ wire' = NoStmt
         ELSE QueryStart(t, db, Sent(tk),
                         Stmt("DROP DATABASE", TRUE, name, <<>>, <<>>),
                         "web.dropDatabase:query")
  /\ UNCHANGED <<pools, insts, db, currentConfig, now, lastSet>>

\* DELETE /api/databases/:name, lines 125-139; a route parameter is not empty
WebDropDatabaseCall(t) ==
  /\ CanCall(t)
  /\ \E name \in {Postgres, AppDb,
                  <<"t","e","m","p","l","a","t","e","0">>,
                  <<"t","e","m","p","l","a","t","e","1">>} :
       LET tk == WebBegin("DELETE /api/databases/:name", name, <<>>) IN
       IF db = 0
         THEN SetTask(t, Finish(tk, "web.notConnected", Null)) /\ wire' = NoStmt
         ELSE IF name \in {Postgres,
                         <<"t","e","m","p","l","a","t","e","0">>,
                         <<"t","e","m","p","l","a","t","e","1">>}
           THEN SetTask(t, Finish(tk, "web.systemDatabase", Null))
                /\ wire' = NoStmt
           ELSE QueryStart(t, db, Sent(tk),
                         Stmt("DROP DATABASE", TRUE, name, <<>>, <<>>),
                         "web.dropDatabase:query")
  /\ UNCHANGED <<pools, insts, db, currentConfig, now, lastSet>>

\* GET /api/tables/:name/data, lines 292-302: the limit is the text of the
\* query parameter, or 100 when it is absent or empty
WebTableDataCall(t) ==
  /\ CanCall(t)
  /\ \E name \in WebTableNameInputs \ {<<>>},
        given \in {Undefined, <<"5">>, <<"0">>, <<"1",";","x">>} :
       LET tk == WebBegin("GET /api/tables/:name/data", name, <<>>)
           limit == IF Falsy(given) THEN <<"1","0","0">> ELSE given
       IN IF db = 0
            THEN SetTask(t, Finish(tk, "web.notConnected", Null))
                 /\ wire' = NoStmt
            ELSE QueryStart(t, db, Sent(tk),
                            Stmt("SELECT ROWS", TRUE, name, limit, <<>>),
                            "web.tableData:query")
  /\ UNCHANGED <<pools, insts, db, currentConfig, now, lastSet>>

\* POST /api/query, lines 354-367
WebQueryCall(t) ==
  /\ CanCall(t)
  /\ \E sql \in SqlInputs :
       LET tk == WebBegin("POST /api/query", sql, <<>>) IN
       IF db = 0
         THEN SetTask(t, Finish(tk, "web.notConnected", Null)) /\ wire' = NoStmt
         ELSE IF Falsy(sql)
           THEN SetTask(t, Finish(tk, "web.emptyInput", Null)) /\ wire' = NoStmt
           ELSE QueryStart(t, db, Sent(tk),
                           Stmt("CUSTOM", FALSE, <<>>, sql, <<>>),
                           "web.query:query")
  /\ UNCHANGED <<pools, insts, db, currentConfig, now, lastSet>>

\* the tail of the handlers above: the result of db.query becomes the 200
\* response, its error the 500 response
WebStatementResume(t) ==
  /\ task[t].pc \in {"web.createTable:query", "web.dropTable:query",
                     "web.tableData:query", "web.query:query",
                     "web.dropDatabase:query"}
  /\ \E outcome \in QueryOutcomes(t) :
       IF outcome = "ok"
         THEN SetTask(t, Finish(task[t], "none", Null))
         ELSE SetTask(t, Finish(task[t], "db.queryFailed", Null))
  /\ UNCHANGED <<pools, insts, db, currentConfig, now, lastSet>> /\ wire' = NoStmt

\* ------------------------------------------------------------------------
\* Time
\* ------------------------------------------------------------------------
Tick ==
  /\ \E d \in {cacheTimeout} : now + d <= MaxNow /\ now' = now + d
  /\ UNCHANGED <<pools, insts, db, currentConfig, task, lastSet>>
  /\ wire' = NoStmt

\* ------------------------------------------------------------------------
\* The command-line tool: one DatabaseConnection (src/src/index.js line 20)
\* and one caller that awaits every operation before the next
\* ------------------------------------------------------------------------
NoConfig ==
  [set |-> FALSE, host |-> "", port |-> "", user |-> "", database |-> <<>>]

Main == 1

Init ==
  /\ pools = <<>>
  /\ insts = <<NewDatabaseConnection>>
  /\ db = 1
  /\ currentConfig = NoConfig
  /\ task = [t \in Tasks |-> IdleTask]
  /\ wire = NoStmt
  /\ now = 0
  /\ lastSet = NeverSet

\* the steps in which the driver answers a pending call
DriverStep ==
  \/ ConnectResume(Main)
  \/ DisconnectResume(Main)
  \/ QueryResume(Main)
  \/ ListDatabasesResume(Main)
  \/ CreateDatabaseResume(Main)
  \/ DropDatabaseResume(Main)
  \/ SwitchDatabaseDisconnected(Main)
  \/ SwitchDatabaseConnected(Main)
  \/ ListTablesResume(Main)
  \/ DescribeTableResume(Main)
  \/ GetTableRowCountResume(Main)
  \/ MenuCreateTableResume(Main)
  \/ MenuDropTableListed(Main)
  \/ MenuDropTablePrompt(Main)
  \/ MenuDropTableResume(Main)
  \/ MenuViewTableDataListed(Main)
  \/ MenuViewTableDataPrompt(Main)
  \/ MenuViewTableDataResume(Main)
  \/ MenuCustomQueryResume(Main)

CallStep ==
  \/ ConnectCall(Main)
  \/ DisconnectCall(Main)
  \/ QueryCall(Main)
  \/ ListDatabasesCall(Main)
  \/ CreateDatabaseCall(Main)
  \/ DropDatabaseCall(Main)
  \/ SwitchDatabaseCall(Main)
  \/ ListTablesCall(Main)
  \/ DescribeTableCall(Main)
  \/ GetTableRowCountCall(Main)
  \/ MenuCreateTableCall(Main)
  \/ MenuDropTableCall(Main)
  \/ MenuViewTableDataCall(Main)
  \/ MenuCustomQueryCall(Main)

Next == CallStep \/ DriverStep \/ Tick

Spec == Init /\ [][Next]_vars

\* the driver answers every call
FairSpec == Spec /\ WF_vars(DriverStep)

TypeOK ==
  /\ Len(pools) <= MaxPools
  /\ Len(insts) <= MaxInsts
  /\ db \in 0..Len(insts)
  /\ now \in 0..MaxNow
  /\ \A i \in DOMAIN insts : insts[i].pool \in 0..Len(pools)

\* ------------------------------------------------------------------------
\* The web server: no instance at start (server.js lines 25-26), requests
\* handled concurrently
\* ------------------------------------------------------------------------
InitWeb ==
  /\ pools = <<>>
  /\ insts = <<>>
  /\ db = 0
  /\ currentConfig = NoConfig
  /\ task = [t \in Tasks |-> IdleTask]
  /\ wire = NoStmt
  /\ now = 0
  /\ lastSet = NeverSet

NextWeb ==
  \E t \in Tasks :
    \/ WebConnectCall(t)
    \/ WebConnectDisconnected(t)
    \/ WebConnectResume(t)
    \/ WebSwitchCall(t)
    \/ WebSwitchDisconnected(t)
    \/ WebSwitchResume(t)
    \/ WebDropDatabaseCall(t)
    \/ WebListTablesCall(t)
    \/ WebListTablesListed(t)
    \/ WebListTablesCounted(t)
    \/ WebCreateTableCall(t)
    \/ WebDropTableCall(t)
    \/ WebTableDataCall(t)
    \/ WebQueryCall(t)
    \/ WebStatementResume(t)

SpecWeb == InitWeb /\ [][NextWeb]_vars

\* the handlers that act on databases: POST /api/connect and
\* POST /api/switch-database, which create and end pools, and
\* DELETE /api/databases/:name, with every interleaving of their awaits
NextWebDatabases ==
  \E t \in Tasks :
    \/ WebConnectCall(t)
    \/ WebConnectDisconnected(t)
    \/ WebConnectResume(t)
    \/ WebSwitchCall(t)
    \/ WebSwitchDisconnected(t)
    \/ WebSwitchResume(t)
    \/ WebDropDatabaseCall(t)
    \/ WebStatementResume(t)

SpecWebDatabases == InitWeb /\ [][NextWebDatabases]_vars

\* ------------------------------------------------------------------------
\* The validators of SecurityUtils applied to one input each: the input is
\* the argument of the caller's record, the outcome its result
\* ------------------------------------------------------------------------
MaxProbeLen == 3

Repeat(c, n) == [i \in 1..n |-> c]

\* names at and beyond the length limit, clean and with a character the
\* sanitizer removes; custom queries: each read-only prefix in some case,
\* padded, and texts that only resemble one; table schemas: with and without
\* the column shape, and one per dangerous keyword; limits: the ends of the
\* range, and every form parseInt distinguishes; file names: with path
\* characters, with nothing left, and at and beyond the length limit
ProbeExamples ==
  {Undefined, Postgres, Injection, SqlPaddedSelect, SqlDelete, SchemaOk,
   SchemaDrop,
   Repeat("a", 63), Repeat("a", 64),
   <<"-">> \o Repeat("a", 63), <<";">> \o Repeat("a", 64),
   <<"1","a">>,
   <<"d","r","o","p",";","-","-","x">>,
   <<"s","e","l","e","c","t"," ","*"," ","f","r","o","m"," ","t">>,
   <<"i","n","s","e","r","t"," ","i","n","t","o"," ","t"," ","v","a","l",
     "u","e","s"," ","(","1",")">>,
   <<"W","I","T","H"," ","x">>,
   <<" "," ","s","h","o","w"," ","a","l","l"," ">>,
   <<"E","x","p","l","a","i","n"," ","x">>,
   <<"d","e","s","c","r","i","b","e"," ","t">>,
   <<"s","e","l","e","c">>,
   <<"x","s","e","l","e","c","t"," ","1">>,
   <<"d","r","o","p">>,
   <<" ","i","d"," ","i","n","t"," ">>,
   <<"_","i","d","	","I","n","t">>,
   <<"i","d">>,
   <<"1","d"," ","i","n","t">>,
   <<"i","d"," ","1">>,
   <<"t","r","u","n","c","a","t","e">>,
   <<"x"," ","A","L","T","E","R"," ","y">>,
   <<"a"," ","d","e","l","e","t","e","d">>,
   <<"c","r","e","a","t","e"," ","d","a","t","a","b","a","s","e">>,
   <<"g"," ","G","r","a","n","t">>,
   <<"r"," ","r","e","v","o","k","e">>,
   <<"0">>,
   <<"1","0","0","0","0">>,
   <<"1","0","0","0","1">>,
   <<"1">>,
   <<"a","b","c">>,
   <<"1","2","a","b","c">>,
   <<" ","5">>,
   <<"-","3">>,
   <<"+","7">>,
   <<"1",".","5">>,
   <<"0","x","1","0">>,
   <<"0","X","2","7","1","1">>,
   <<".",".","/","x">>,
   <<"a","\\","b",".","c","s","v">>,
   <<".">>,
   <<"$"," ">>,
   Repeat("a", 255), Repeat("a", 256),
   <<"/">> \o Repeat("b", 255) \o <<"$">>}

\* every text of at most MaxProbeLen characters over one character of each
\* class the validators distinguish, and the examples
ValidatorInputs ==
  UNION { [1..n -> {"a", "Z", "1", "_", "-", " "}] : n \in 0..MaxProbeLen }
    \cup ProbeExamples

\* the caller's record once validator op has answered outcome
Apply(op, outcome) ==
  /\ task[Main].pc = "idle"
  /\ task' = [task EXCEPT ![Main] =
                [@ EXCEPT !.pc = "done", !.op = op, !.err = outcome.err,
                          !.ret = outcome]]
  /\ UNCHANGED <<pools, insts, db, currentConfig, wire, now, lastSet>>

IsValidDatabaseNameApply ==
  Apply("isValidDatabaseName", Ok(isValidDatabaseName(task[Main].arg)))

IsValidTableNameApply ==
  Apply("isValidTableName", Ok(isValidTableName(task[Main].arg)))

SanitizeIdentifierApply ==
  Apply("sanitizeIdentifier", sanitizeIdentifier(task[Main].arg))

ValidateLimitApply ==
  Apply("validateLimit", validateLimit(task[Main].arg))

ValidateTableSchemaApply ==
  Apply("validateTableSchema", validateTableSchema(task[Main].arg))

ValidateCustomQueryApply ==
  Apply("validateCustomQuery", validateCustomQuery(task[Main].arg))

SanitizeFilenameApply ==
  Apply("sanitizeFilename", sanitizeFilename(task[Main].arg))

InitValidators ==
  /\ pools = <<>>
  /\ insts = <<NewDatabaseConnection>>
  /\ db = 1
  /\ currentConfig = NoConfig
  /\ \E input \in ValidatorInputs :
       task = [t \in Tasks |->
                 IF t = Main THEN [IdleTask EXCEPT !.arg = input]
                 ELSE IdleTask]
  /\ wire = NoStmt
  /\ now = 0
  /\ lastSet = NeverSet

NextValidators ==
  \/ IsValidDatabaseNameApply
  \/ IsValidTableNameApply
  \/ SanitizeIdentifierApply
  \/ ValidateLimitApply
  \/ ValidateTableSchemaApply
  \/ ValidateCustomQueryApply
  \/ SanitizeFilenameApply

SpecValidators == InitValidators /\ [][NextValidators]_vars

\* ------------------------------------------------------------------------
\* The cache of one DatabaseConnection called directly (setCache, getCache,
\* clearCache of src/src/db.js) while the clock advances
\* ------------------------------------------------------------------------
MaxCacheNow == 60000

\* the caller's record once cache method op has been called with key
CacheCalled(op, key, ret) ==
  [IdleTask EXCEPT !.pc = "done", !.op = op, !.inst = db, !.arg = key,
                   !.ret = ret]

SetCacheCall ==
  /\ \E key \in DirectKeys, value \in {RowsVal(<<TUsers>>), CountVal(0)} :
       /\ insts' = [insts EXCEPT ![db].cache = setCache(@, key, value, now)]
       /\ lastSet' = [lastSet EXCEPT ![key] =
                        [set |-> TRUE, value |-> value, time |-> now]]
       /\ task' = [task EXCEPT ![Main] = CacheCalled("setCache", key, Null)]
  /\ UNCHANGED <<pools, db, currentConfig, wire, now>>

GetCacheCall ==
  /\ \E key \in DirectKeys :
       /\ insts' = [insts EXCEPT ![db].cache = getCacheAfter(@, key, now)]
       /\ task' = [task EXCEPT ![Main] =
                     CacheCalled("getCache", key,
                                 getCacheValue(insts[db].cache, key, now))]
  /\ UNCHANGED <<pools, db, currentConfig, wire, now, lastSet>>

ClearCacheCall ==
  /\ insts' = [insts EXCEPT ![db].cache = clearCache(@)]
  /\ lastSet' = NeverSet
  /\ task' = [task EXCEPT ![Main] = CacheCalled("clearCache", <<>>, Null)]
  /\ UNCHANGED <<pools, db, currentConfig, wire, now>>

CacheTick ==
  /\ \E d \in {cacheTimeout - 1, cacheTimeout} : now + d <= MaxCacheNow /\ now' = now + d
  /\ UNCHANGED <<pools, insts, db, currentConfig, task, wire, lastSet>>

NextCache == SetCacheCall \/ GetCacheCall \/ ClearCacheCall \/ CacheTick

SpecCache == Init /\ [][NextCache]_vars

\* ------------------------------------------------------------------------
\* One DatabaseConnection shared by callers that do not wait for each
\* other: their operations interleave at the awaits
\* ------------------------------------------------------------------------
NextShared ==
  \E t \in Tasks :
    \/ ConnectCall(t)
    \/ ConnectResume(t)
    \/ SwitchDatabaseCall(t)
    \/ SwitchDatabaseDisconnected(t)
    \/ SwitchDatabaseConnected(t)
    \/ ListTablesCall(t)
    \/ ListTablesResume(t)
    \/ GetTableRowCountCall(t)
    \/ GetTableRowCountResume(t)

SpecShared == Init /\ [][NextShared]_vars

\* ------------------------------------------------------------------------
\* Properties
\* ------------------------------------------------------------------------
\* the record of the command-line caller and the instance it works on
Cur == task[Main]

CurInst == insts[1]

\* pools created and not yet ended
LivePools == { p \in DOMAIN pools : pools[p].state # "ended" }

\* every key an operation of DatabaseConnection can put into the cache
AllCacheKeys ==
  {KeyDatabases}
    \cup { KeyTables(d) : d \in {x \in DbNameInputs : isValidDatabaseName(x)} }
    \cup { KeyRowcount(n) : n \in {x \in TableNameInputs : isValidTableName(x)} }

\* C1: every database or table name interpolated into a statement handed to
\* the driver is a name the validators accept: isValidDatabaseName or
\* isValidTableName holds of it, or it is what sanitizeIdentifier returns
C1_InterpolatedNamesValidated ==
  wire.interp =>
    \/ isValidTableName(wire.ident)
    \/ isValidDatabaseName(wire.ident)
    \/ /\ sanitizeIdentifier(wire.ident).ok
       /\ sanitizeIdentifier(wire.ident).val = wire.ident

\* C2: every ad-hoc statement handed to the driver by the custom-query
\* operation is one validateCustomQuery accepts
C2_CustomQueriesReadOnly ==
  wire.verb = "CUSTOM" => validateCustomQuery(wire.text).ok

\* C3: once createDatabase, dropDatabase or switchDatabase has returned
\* normally, getCache reports absent for every key
C3_MutationInvalidatesCache ==
  (/\ Cur.pc = "done" /\ Cur.err = "none"
   /\ Cur.op \in {"createDatabase", "dropDatabase", "switchDatabase"})
    => \A key \in AllCacheKeys : getCacheValue(CurInst.cache, key, now) = Null

C3_Witness ==
  /\ Cur.pc = "done" /\ Cur.err = "none"
  /\ Cur.op \in {"createDatabase", "dropDatabase", "switchDatabase"}
  /\ Cur.hadCache

\* C4: once the createTable or the dropTable flow has created or dropped a
\* table, the cache is empty
C4_TableMutationClearsCache ==
  (Cur.pc = "done" /\ Cur.msg \in {"table.created", "table.dropped"})
    => CurInst.cache = {}

\* C5: a DatabaseConnection has at most one pool that was created and is
\* not yet ended
C5_AtMostOneLivePool == Cardinality(LivePools) <= 1

\* C6: after a failed connect the pool is null and no pool is left un-ended
C6_FailedConnectDiscardsPool ==
  (Cur.pc = "done" /\ Cur.op = "connect" /\ Cur.err = "db.connectionFailed")
    => CurInst.pool = 0 /\ LivePools = {}

\* switchDatabase has returned normally
SwitchReturned ==
  Cur.pc = "done" /\ Cur.op = "switchDatabase" /\ Cur.err = "none"

\* the instance has a live pool for database name and names it as current
LandedOn(name) ==
  /\ CurInst.pool # 0
  /\ pools[CurInst.pool].state = "live"
  /\ pools[CurInst.pool].database = name
  /\ CurInst.database = name

SwitchPending == Cur.op = "switchDatabase" /\ Cur.pc # "done"

\* C7: switchDatabase(name) with a valid name returns normally only with a
\* live pool connected to name and name as current database, and if the
\* driver answers every call it returns or raises
C7_SwitchIsAtomic ==
  /\ [](SwitchReturned => LandedOn(Cur.arg))
  /\ (SwitchPending ~> (Cur.op = "switchDatabase" /\ Cur.pc = "done"))

C7_Witness == SwitchReturned /\ Cur.hadPool # 0 /\ Cur.arg = AppDb

\* C8: query called with no pool fails at once with db.notConnected and
\* without a driver call; db.queryFailed is raised only after a driver call
C8_NotConnectedFailsFast ==
  /\ (Cur.op = "query" /\ Cur.hadPool = 0)
       => (Cur.pc = "done" /\ Cur.err = "db.notConnected" /\ Cur.calls = 0)
  /\ (Cur.op = "query" /\ Cur.err = "db.queryFailed") => Cur.calls = 1

C8_Witness ==
  Cur.op = "query" /\ Cur.hadPool = 0 /\ Cur.arg = SqlPaddedSelect
  /\ Len(pools) > 0

\* a step in which disconnect is called on an instance without a pool
DisconnectOnNoPool ==
  /\ CanCall(Main) /\ CurInst.pool = 0
  /\ task'[Main].op = "disconnect" /\ task' # task

\* C9: disconnect without a pool calls nothing and changes nothing; after a
\* disconnect has returned the pool is null; no pool is ended twice
C9_DisconnectIdempotent ==
  /\ []((Cur.op = "disconnect" /\ Cur.pc = "done" /\ Cur.err = "none")
          => CurInst.pool = 0)
  /\ []((Cur.op = "disconnect" /\ Cur.hadPool = 0)
          => (Cur.pc = "done" /\ Cur.err = "none" /\ Cur.calls = 0))
  /\ [](\A p \in DOMAIN pools : pools[p].ends <= 1)
  /\ [][DisconnectOnNoPool =>
          (pools' = pools /\ insts' = insts /\ wire' = NoStmt)]_vars

\* the second of two disconnects in a row
C9_Witness ==
  /\ Cur.op = "disconnect" /\ Cur.pc = "done" /\ Cur.hadPool = 0
  /\ \E p \in DOMAIN pools : pools[p].ends = 1

\* a step in which one of the five operations is called with a name the
\* validators reject
CallWithInvalidName ==
  /\ CanCall(Main) /\ task' # task
  /\ \/ /\ task'[Main].op \in {"createDatabase", "dropDatabase", "switchDatabase"}
        /\ ~isValidDatabaseName(task'[Main].arg)
     \/ /\ task'[Main].op \in {"describeTable", "getTableRowCount"}
        /\ ~isValidTableName(task'[Main].arg)

\* C10: a call with a rejected name raises security.invalidIdentifier in
\* the same step, hands nothing to the driver and leaves the pools, the
\* pool handle, config.database and the cache as they were
C10_ValidationBeforeNetwork ==
  [][CallWithInvalidName =>
       /\ task'[Main].pc = "done"
       /\ task'[Main].err = "security.invalidIdentifier"
       /\ task'[Main].calls = 0
       /\ wire' = NoStmt
       /\ pools' = pools
       /\ insts' = insts]_vars

C10_Witness ==
  /\ Cur.op = "switchDatabase" /\ Cur.err = "security.invalidIdentifier"
  /\ Cur.hadPool # 0 /\ Cur.hadCache

\* C11: no CREATE TABLE statement handed to the driver carries a column
\* fragment in which validateTableSchema finds a dangerous keyword
C11_DangerousSchemaNeverSent ==
  wire.verb = "CREATE TABLE"
    => validateTableSchema(wire.text).err # "security.dangerousKeyword"

\* the characters [A-Za-z0-9_] of the specification
WordChars == Lower \cup Upper \cup Digits \cup {"_"}

\* x without the characters outside [A-Za-z0-9_], the others in their order
RECURSIVE Stripped(_)
Stripped(x) ==
  IF x = <<>> THEN <<>>
  ELSE IF Len(x) = 1 THEN (IF x[1] \in WordChars THEN x ELSE <<>>)
  ELSE LET half == Len(x) \div 2 IN
       Stripped(SubSeq(x, 1, half)) \o Stripped(SubSeq(x, half + 1, Len(x)))

\* validator op has been applied to the input
Answered(op) == Cur.pc = "done" /\ Cur.op = op

\* C12: sanitizeIdentifier(x) fails with security.invalidIdentifier exactly
\* when x is empty or no string or x stripped of the characters outside
\* [A-Za-z0-9_] is empty or longer than 63; otherwise it returns x stripped,
\* which has 1..63 characters, all of [A-Za-z0-9_]
C12_SanitizeIdentifierStrips ==
  Answered("sanitizeIdentifier") =>
    LET x == Cur.arg
        r == Cur.ret
        fails == \/ x = <<>> \/ ~IsString(x)
                 \/ Stripped(x) = <<>> \/ Len(Stripped(x)) > 63
    IN /\ r.ok <=> ~fails
       /\ ~r.ok => r.err = "security.invalidIdentifier"
       /\ r.ok => /\ r.val = Stripped(x)
                  /\ Len(r.val) \in 1..63
                  /\ \A i \in DOMAIN r.val : r.val[i] \in WordChars

C12_Witness ==
  /\ Answered("sanitizeIdentifier") /\ Cur.arg = <<"d","r","o","p",";","-","-","x">>
  /\ Cur.ret.ok /\ Cur.ret.val = <<"d","r","o","p","x">>

\* a string of 1..63 characters, the first a letter or underscore, the
\* others letters, digits or underscores
IsName(x) ==
  /\ IsString(x)
  /\ Len(x) \in 1..63
  /\ x[1] \in Lower \cup Upper \cup {"_"}
  /\ \A i \in 2..Len(x) : x[i] \in WordChars

\* C13: isValidDatabaseName(s) and isValidTableName(s) are both true exactly
\* when s is a string of 1..63 characters that starts with a letter or an
\* underscore and goes on with letters, digits and underscores
C13_NameValidatorsAgree ==
  (Answered("isValidDatabaseName") \/ Answered("isValidTableName"))
    => (Cur.ret.val <=> IsName(Cur.arg))

C13_Witness ==
  Answered("isValidTableName") /\ Cur.arg = Repeat("a", 64) /\ Cur.ret.val = FALSE

\* the trimmed, upper-cased text of x begins with SELECT, WITH, SHOW,
\* DESCRIBE or EXPLAIN
HasReadOnlyPrefix(x) ==
  \E k \in { <<"S","E","L","E","C","T">>, <<"W","I","T","H">>,
             <<"S","H","O","W">>, <<"D","E","S","C","R","I","B","E">>,
             <<"E","X","P","L","A","I","N">> } :
    StartsWith(Trim(ToUpperCase(x)), k)

\* validateCustomQuery accepts exactly the non-empty strings with a
\* read-only prefix and returns them trimmed
AcceptsExactlyReadOnly ==
  LET x == Cur.arg
      r == Cur.ret
  IN /\ r.ok <=> (x # <<>> /\ IsString(x) /\ HasReadOnlyPrefix(x))
     /\ r.ok => r.val = Trim(x)

\* C14 as stated: validateCustomQuery accepts exactly the non-empty strings
\* with a read-only prefix, returns them trimmed, and fails with
\* security.readOnlyAllowed on every other input
C14_RejectsWithReadOnlyError ==
  Answered("validateCustomQuery") =>
    /\ AcceptsExactlyReadOnly
    /\ ~Cur.ret.ok => Cur.ret.err = "security.readOnlyAllowed"

\* C14 amended: as above, but an empty or non-string input fails with
\* security.invalidQuery, and only the other rejected inputs fail with
\* security.readOnlyAllowed
C14_RejectsEmptyAsInvalidQuery ==
  Answered("validateCustomQuery") =>
    /\ AcceptsExactlyReadOnly
    /\ ~Cur.ret.ok =>
         Cur.ret.err = IF Cur.arg = <<>> \/ ~IsString(Cur.arg)
                         THEN "security.invalidQuery"
                         ELSE "security.readOnlyAllowed"

C14_Witness ==
  /\ Answered("validateCustomQuery") /\ Cur.arg = <<>>
  /\ Cur.ret.err = "security.invalidQuery"

\* the upper-cased text of x contains DROP, DELETE, TRUNCATE, ALTER,
\* CREATE DATABASE, DROP DATABASE, GRANT or REVOKE
ContainsDangerousKeyword(x) ==
  \E k \in { <<"D","R","O","P">>, <<"D","E","L","E","T","E">>,
             <<"T","R","U","N","C","A","T","E">>, <<"A","L","T","E","R">>,
             <<"C","R","E","A","T","E"," ","D","A","T","A","B","A","S","E">>,
             <<"D","R","O","P"," ","D","A","T","A","B","A","S","E">>,
             <<"G","R","A","N","T">>, <<"R","E","V","O","K","E">> } :
    \E i \in 1..Len(x) :
      /\ i + Len(k) - 1 <= Len(x)
      /\ \A j \in 1..Len(k) : ToUpperChar(x[i + j - 1]) = k[j]

\* x starts with optional white space (up to position a), an identifier-like
\* token (up to b), white space (up to c) and a letter
HasColumnShape(x) ==
  \E a \in 0..Len(x), b \in 1..Len(x), c \in 1..Len(x) :
    /\ a < b /\ b < c /\ c < Len(x)
    /\ \A i \in 1..a : x[i] \in Whitespace
    /\ x[a + 1] \in Lower \cup Upper \cup {"_"}
    /\ \A i \in (a + 2)..b : x[i] \in WordChars
    /\ \A i \in (b + 1)..c : x[i] \in Whitespace
    /\ x[c + 1] \in Lower \cup Upper

\* C15: validateTableSchema fails with security.dangerousKeyword on every
\* string that contains a dangerous keyword, well-formed or not, and accepts
\* a keyword-free input exactly when it has the column shape, returning it
\* trimmed
C15_DangerousKeywordFirst ==
  Answered("validateTableSchema") =>
    LET x == Cur.arg
        r == Cur.ret
    IN IF IsString(x) /\ ContainsDangerousKeyword(x)
         THEN ~r.ok /\ r.err = "security.dangerousKeyword"
         ELSE /\ r.ok <=> (IsString(x) /\ HasColumnShape(x))
              /\ r.ok => r.val = Trim(x)

\* a fragment that contains a keyword and has not the column shape
C15_Witness ==
  /\ Answered("validateTableSchema") /\ Cur.arg = <<"d","r","o","p">>
  /\ ~HasColumnShape(Cur.arg)
  /\ Cur.ret.err = "security.dangerousKeyword"

GetCacheStep(key) ==
  /\ task'[Main].op = "getCache" /\ task'[Main].arg = key
  /\ now' = now /\ lastSet' = lastSet

\* C17: getCache(k) less than 30000 ms after the last setCache(k, v), with
\* no clearCache since, returns v; at 30000 ms or more after it getCache(k)
\* returns null and leaves no entry for k
C17_CacheTimeToLive ==
  [][\A key \in DirectKeys :
       (GetCacheStep(key) /\ lastSet[key].set) =>
         IF now - lastSet[key].time < 30000
           THEN task'[Main].ret = lastSet[key].value
           ELSE /\ task'[Main].ret = Null
                /\ ~CacheHas(insts'[1].cache, key)]_vars

\* getCache answers with the value of a setCache made 30000 ms after the
\* start, 29999 ms later
C17_Witness ==
  /\ Cur.op = "getCache" /\ Cur.ret = CountVal(0)
  /\ lastSet[Cur.arg] = [set |-> TRUE, value |-> CountVal(0), time |-> 30000]
  /\ now = 59999

\* the cache key of the read that the caller's record tk stands for
ReadKey(tk) ==
  IF tk.op = "listDatabases" THEN KeyDatabases
  ELSE IF tk.op = "listTables" THEN KeyTables(CurInst.database)
  ELSE KeyRowcount(tk.arg)

\* an earlier read has put a value under key less than 30000 ms ago and
\* nothing has removed it
FreshEntry(key) ==
  /\ CacheHas(CurInst.cache, key)
  /\ now - CacheEntry(CurInst.cache, key).timestamp < 30000

\* a step in which listDatabases, listTables or getTableRowCount is called
\* while the value of the same call is in the cache
RepeatedRead ==
  /\ CanCall(Main) /\ task'[Main] # task[Main]
  /\ task'[Main].op \in {"listDatabases", "listTables", "getTableRowCount"}
  /\ FreshEntry(ReadKey(task'[Main]))

\* C18: a read repeated while the value of the first call is in the cache
\* returns that value, whatever it is, and hands nothing to the driver
C18_RepeatedReadServedFromCache ==
  [][RepeatedRead =>
       /\ task'[Main].pc = "done" /\ task'[Main].err = "none"
       /\ task'[Main].ret = CacheEntry(CurInst.cache, ReadKey(task'[Main])).value
       /\ task'[Main].calls = 0
       /\ wire' = NoStmt]_vars

\* a step in which task t gets the value of a listTables or
\* getTableRowCount call right after another caller's switchDatabase has
\* returned normally
ReadAfterSwitch(t) ==
  /\ \E u \in Tasks \ {t} :
       /\ task[u].pc = "done" /\ task[u].op = "switchDatabase"
       /\ task[u].err = "none"
  /\ task'[t] # task[t]
  /\ task'[t].pc = "done" /\ task'[t].err = "none"
  /\ task'[t].op \in {"listTables", "getTableRowCount"}

\* C19: once switchDatabase has completed, a listTables or getTableRowCount
\* call returns a value of the database switched to, never one read from
\* the database before
C19_NoValueAcrossSwitch ==
  [][\A t \in Tasks :
       ReadAfterSwitch(t) =>
         /\ task'[t].op = "listTables"
              => task'[t].ret.rows \in TablesIn(CurInst.database)
         /\ task'[t].op = "getTableRowCount"
              => task'[t].ret.n \in CountsIn(CurInst.database)]_vars

\* C20: when the driver answers a statement (or a call of end()) with an
\* error, the step of the operation that waits for it ends the operation
\* with an error and sends nothing again
C20_DriverErrorsPropagate ==
  [][\A t \in Tasks :
       (task[t].rej /\ task'[t] # task[t]) =>
         /\ task'[t].pc = "done"
         /\ task'[t].err # "none"
         /\ task'[t].calls = task[t].calls
         /\ wire' = NoStmt]_vars

\* C21: no statement is handed to a pool on which end() has been called:
\* the pool a statement is sent on is live at the moment it is sent
C21_NoStatementOnClosingPool ==
  wire.pool # 0 => pools[wire.pool].state = "live"

SwitchReconnects(t) ==
  /\ task'[t].pc \in {"switch:probe", "web.switch:probe"}
  /\ task[t].pc # task'[t].pc

\* C23: the pool a database switch reconnects with is created with the host,
\* port, user and password of the connection before the switch
C23_SwitchKeepsLogin ==
  [][\A t \in Tasks :
       SwitchReconnects(t) => pools'[task'[t].pool].login = insts[db].login]_vars

C24_LimitIsBoundParameter ==
  wire.verb = "SELECT ROWS" =>
    /\ wire.text = <<>>
    /\ Len(wire.params) = 1
    /\ wire.params[1] \in 1..10000

\* C25: listDatabases, listTables and getTableRowCount called on an instance
\* without a pool fail with db.notConnected (or reject the name): they never
\* return a value
C25_NoCachedValueWithoutPool ==
  (/\ Cur.op \in {"listDatabases", "listTables", "getTableRowCount"}
   /\ Cur.pc = "done" /\ Cur.hadPool = 0)
    => Cur.err \in {"db.notConnected", "security.invalidIdentifier"}

\* a step of describeTable: its call, or the answer to its statement
DescribeTableStep ==
  task'[Main].op = "describeTable" /\ task'[Main] # task[Main]

\* C26: describeTable leaves the cache as it is; called with a valid name on
\* a connected instance it sends one statement with the name bound as $1 and
\* not interpolated, whatever the cache holds, and sends nothing more when
\* the answer arrives
C26_DescribeTableBypassesCache ==
  [][DescribeTableStep =>
       /\ insts' = insts
       /\ (CanCall(Main) /\ isValidTableName(task'[Main].arg)
             /\ CurInst.pool # 0) =>
            /\ task'[Main].pc = "describeTable:query"
            /\ task'[Main].calls = 1
            /\ wire' = [Stmt("DESCRIBE", FALSE, <<>>, <<>>,
                              <<task'[Main].arg>>)
                          EXCEPT !.pool = CurInst.pool]
       /\ task[Main].pc = "describeTable:query" =>
            /\ task'[Main].pc = "done"
            /\ task'[Main].calls = 1
            /\ wire' = NoStmt]_vars

\* describeTable has sent its statement for table t while the cache holds
\* an unexpired row count for the same table
C26_Witness ==
  /\ Cur.op = "describeTable" /\ Cur.pc = "describeTable:query"
  /\ Cur.arg = TUsers /\ Cur.calls = 1
  /\ getCacheValue(CurInst.cache, KeyRowcount(TUsers), now) # Null

\* a step in which safeIdentifierQuery hands its statement to the driver, for
\* getTableRowCount or viewTableData; the caller's record holds the
\* identifier it passed
SafeIdentifierSends ==
  /\ task'[Main].pc \in {"getTableRowCount:query", "menu.viewTableData:query"}
  /\ task'[Main].pc # task[Main].pc

\* C27: the statement safeIdentifierQuery sends names exactly the identifier
\* it was given
C27_StatementNamesGivenIdentifier ==
  [][SafeIdentifierSends => wire'.ident = task'[Main].arg]_vars

\* C28: the pool a DatabaseConnection holds was created for the database its
\* configuration names
C28_PoolMatchesConfig ==
  \A i \in DOMAIN insts :
    insts[i].pool # 0 => pools[insts[i].pool].database = insts[i].database

\* a switchDatabase to app has failed at the probe and left its pool
C28_Witness ==
  /\ Cur.op = "switchDatabase" /\ Cur.pc = "done"
  /\ Cur.err = "db.connectionFailed" /\ Cur.arg = AppDb
  /\ CurInst.pool # 0 /\ CurInst.database = AppDb

\* the databases PostgreSQL itself needs
SystemDatabases ==
  {<<"p","o","s","t","g","r","e","s">>,
   <<"t","e","m","p","l","a","t","e","0">>,
   <<"t","e","m","p","l","a","t","e","1">>}

RECURSIVE FilenameCleaned(_)
FilenameCleaned(x) ==
  IF x = <<>> THEN <<>>
  ELSE IF Len(x) = 1
    THEN (IF x[1] \in {".", "/", "\\"} THEN <<"_">>
          ELSE IF x[1] \in WordChars \cup {"-"} THEN x
          ELSE <<>>)
  ELSE LET half == Len(x) \div 2 IN
       FilenameCleaned(SubSeq(x, 1, half))
         \o FilenameCleaned(SubSeq(x, half + 1, Len(x)))

\* C30: sanitizeFilename(x) fails with security.invalidFilename exactly when
\* x is empty or no string or nothing of x remains; otherwise it returns the
\* first 255 characters of x cleaned, 1..255 characters of [A-Za-z0-9_-],
\* none of them . / or \
C30_SanitizeFilenameSafe ==
  Answered("sanitizeFilename") =>
    LET x == Cur.arg
        r == Cur.ret
        fails == x = <<>> \/ ~IsString(x) \/ FilenameCleaned(x) = <<>>
    IN /\ r.ok <=> ~fails
       /\ ~r.ok => r.err = "security.invalidFilename"
       /\ r.ok =>
            /\ Len(r.val) \in 1..255
            /\ Len(r.val) = IF Len(FilenameCleaned(x)) > 255 THEN 255
                             ELSE Len(FilenameCleaned(x))
            /\ \A i \in DOMAIN r.val :
                 /\ r.val[i] = FilenameCleaned(x)[i]
                 /\ r.val[i] \in WordChars \cup {"-"}
                 /\ r.val[i] \notin {".", "/", "\\"}

\* a name of 257 characters that starts with / has been cut to 255, its
\* first character turned into _
C30_Witness ==
  /\ Answered("sanitizeFilename")
  /\ Cur.arg = <<"/">> \o Repeat("b", 255) \o <<"$">>
  /\ Cur.ret.ok /\ Cur.ret.val = <<"_">> \o Repeat("b", 254)

====
